---- MODULE Spec2Model ----
(***************************************************************************)
(* Model of AusSRC/casda_mosaic_cutouts: the cutout download coordinator   *)
(* (src/cutout/casda.py), the earlier synchronous downloader               *)
(* (src/casda/cutout.py), the workflow (src/pipeline.py), the mosaic       *)
(* config generator and runners (src/mosaic/linmos.py) and the standalone  *)
(* config generator (src/mosaic/linmos_config.py).                         *)
(*                                                                         *)
(* Conventions.  Python None is the empty tuple <<>> and a supplied value  *)
(* v is <<v>>.  A dict is the sequence of its items [k |-> .., v |-> ..]   *)
(* in insertion order (keys unique).  An astropy table is the sequence of  *)
(* its rows.  Angles are integers in micro-degrees, frequencies integers   *)
(* in kHz, velocities integers in km/s.  A string that the code only       *)
(* splits on spaces is the tuple of its tokens; an obs_id or sbid, which   *)
(* the code tests with substring containment, is the tuple of its          *)
(* characters.                                                             *)
(*                                                                         *)
(* The prefect decorators @task and @flow are taken to run the function    *)
(* they decorate, binding the call's arguments to its parameters first.    *)
(* The variable entry says which entry point of the repository a behaviour *)
(* runs.  A _cutout_and_download job is one step of a worker thread: it    *)
(* shares nothing with the other jobs, and its remote calls are read off   *)
(* its outcome (OpCalls).  Jobs keep running in their threads after        *)
(* download has raised.                                                    *)
(*                                                                         *)
(* The generators and the runners are also run on their own, on inputs     *)
(* drawn in Init.  The workflow does not get past its download step (the   *)
(* namespace of pipeline.parse_args lacks two of download's parameters),   *)
(* so the steps that follow it are also run as an entry of their own, from *)
(* line 78 of cutout_mosaic on, with the file maps download is to return.  *)
(* A runner's subprocesses are recorded in procs as they are spawned; the  *)
(* batch job of an accepted submission is a step of the environment.       *)
(***************************************************************************)
EXTENDS Integers, Sequences, FiniteSets, TLC

\* ------------------------------------------------------------------ bounds
\* Largest number of catalog rows of one product subtype in one observation.
MaxGroup == 2
\* Largest number of entries of a file map handed to generate_config directly.
MaxFiles == 2

\* ------------------------------------------------------- program constants
\* HI_REST_FREQ = 1.420405751786 GHz, in kHz.
HI_REST_FREQ == 1420406
\* Speed of light in km/s, as used by astropy's u.doppler_radio.
SPEED_OF_LIGHT == 299792
\* SEPARATION = math.sqrt(3**2 + 3**2) degrees, in micro-degrees.
SEPARATION == 4242641

IMAGE_SUBTYPE == "spectral.restored.3d"
WEIGHT_SUBTYPE == "spectral.weight.3d"
Subtypes == {IMAGE_SUBTYPE, WEIGHT_SUBTYPE}

None == <<>>
Some(v) == <<v>>

\* ------------------------------------------------------------ Python helpers
Range(s) == {s[i] : i \in DOMAIN s}

Min(S) == CHOOSE x \in S : \A y \in S : x <= y

\* numpy ndarray.sort(): ascending.
RECURSIVE SortAsc(_)
SortAsc(s) ==
    IF s = <<>> THEN <<>>
    ELSE LET m == Min(Range(s))
             i == CHOOSE j \in DOMAIN s : s[j] = m
             rest == [j \in 1..(Len(s) - 1) |-> IF j < i THEN s[j] ELSE s[j + 1]]
         IN <<m>> \o SortAsc(rest)

Abs(x) == IF x < 0 THEN -x ELSE x

\* Python `a in b` for strings, on tuples of characters.
IsSubstring(a, b) ==
    \E i \in 0..(Len(b) - Len(a)) : \A j \in 1..Len(a) : b[i + j] = a[j]

\* dict helpers on insertion-ordered item sequences
Keys(d) == {d[i].k : i \in DOMAIN d}
Values(d) == {d[i].v : i \in DOMAIN d}
KeyList(d) == [i \in DOMAIN d |-> d[i].k]
ValueList(d) == [i \in DOMAIN d |-> d[i].v]
DictSet(d, k, v) ==
    IF k \in Keys(d)
    THEN [i \in DOMAIN d |-> IF d[i].k = k THEN [k |-> k, v |-> v] ELSE d[i]]
    ELSE Append(d, [k |-> k, v |-> v])

\* A merge that keeps only the later dict: `d = new` where `d = {**d, **new}`
\* was meant.
DictUnionOverwrites(a, b) == IF b = <<>> THEN a ELSE b

\* {**a, **b}
RECURSIVE DictUnion(_, _)
DictUnion(a, b) ==
    IF b = <<>> THEN a
    ELSE DictUnion(DictSet(a, Head(b).k, Head(b).v), Tail(b))

\* ------------------------------------------------------------- entry points
CASDA_MAIN == "cutout.casda.main"
CUTOUT_MAIN == "casda.cutout.main"
PIPELINE == "pipeline.cutout_mosaic"
GENERATE_CONFIG == "mosaic.linmos.generate_config"
LINMOS_CONFIG_GENERATE == "mosaic.linmos_config.generate"
RUN_LINMOS == "mosaic.linmos.run_linmos"
RUN_LINMOS_DOCKER == "mosaic.linmos.run_linmos_docker"
\* cutout_mosaic from line 78 on, entered with the file maps that
\* download_cutouts is to hand over: the stage that follows the download.
MOSAIC_STAGE == "pipeline.cutout_mosaic:78"
GeneratorEntries == {GENERATE_CONFIG, LINMOS_CONFIG_GENERATE}
RunnerEntries == {RUN_LINMOS, RUN_LINMOS_DOCKER}
WorkflowEntries == {PIPELINE, MOSAIC_STAGE}
Entries ==
    {CASDA_MAIN, CUTOUT_MAIN, PIPELINE, GENERATE_CONFIG, LINMOS_CONFIG_GENERATE,
     RUN_LINMOS, RUN_LINMOS_DOCKER, MOSAIC_STAGE}

\* Parameters of download(...) that have no default.
DownloadParams ==
    {"name", "ra", "dec", "radius", "freq", "vel", "obs_collection", "output",
     "config", "url", "sbids", "query", "milkyway", "verbose", "no_keyring"}

\* The attribute names of the namespace each parse_args returns.
ParseArgsDests(e) ==
    IF e = CASDA_MAIN
    THEN {"name", "ra", "dec", "radius", "freq", "vel", "obs_collection",
          "output", "config", "url", "query", "sbids", "milkyway",
          "no_keyring", "verbose"}
    ELSE IF e = PIPELINE
    THEN {"name", "ra", "dec", "radius", "freq", "vel", "obs_collection",
          "output", "config", "url", "query", "milkyway", "filename",
          "verbose", "singularity", "scratch", "askapsoft", "account",
          "time", "mem"}
    ELSE {"name", "ra", "dec", "radius", "freq", "vel", "obs_collection",
          "output", "config", "url", "query", "milkyway", "verbose"}

\* ------------------------------------------------------------------- inputs
SB1 == <<1>>
SB12 == <<1, 2>>
ObsIds == {SB1, SB12}

Names == {None, Some("NGC253")}
RAs == {None, Some(150000000)}
Decs == {None, Some(-30000000)}
Freqs == {None, Some(<<1400, 1420>>), Some(<<1420, 1400>>)}
Vels == {None, Some(<<-200, 200>>)}
SbidLists == {None, Some(<<SB1>>), Some(<<<<2>>, <<3>>>>), Some(<<<<3>>>>)}

AllArgs ==
    [name : Names, ra : RAs, dec : Decs, freq : Freqs, vel : Vels,
     sbids : SbidLists, milkyway : BOOLEAN]

\* The target of the spec's end-to-end scenario, with the band given as a
\* velocity range.
EndToEndTarget(a) ==
    /\ a.name = None /\ a.ra # None /\ a.dec # None
    /\ a.freq = None /\ a.vel # None

\* Runs explored: every combination of target inputs on the default selection
\* flags, and each selection flag on the end-to-end target.
CliArgs ==
    {a \in AllArgs :
        \/ a.sbids = None /\ a.milkyway = FALSE
        \/ EndToEndTarget(a) /\ (a.sbids = None \/ a.milkyway = FALSE)}

\* The runs of an entry point: only cutout.casda has the --sbids option.
DefaultArgs ==
    [name |-> None, ra |-> Some(150000000), dec |-> Some(-30000000),
     freq |-> None, vel |-> Some(<<-200, 200>>), sbids |-> None, milkyway |-> FALSE]

CliArgsOf(e) ==
    IF e = CASDA_MAIN THEN CliArgs
    ELSE IF e \in {CUTOUT_MAIN, PIPELINE} THEN {a \in CliArgs : a.sbids = None}
    ELSE {DefaultArgs}

\* -------------------------------------------------------- coordinate resolver
\* SkyCoord.from_name: the position the name service returns.
FromName(name) == [ra |-> 150000000, dec |-> -30000000]

\* --freq "a b" [MHz] -> np.array([float(i) ...]) * 1e6 * u.Hz, here in kHz.
FreqToBand(f) == [i \in DOMAIN f |-> f[i] * 1000]

\* vel.to(u.Hz, equivalencies=u.doppler_radio(HI_REST_FREQ)):
\* f = f0 * (1 - v / c), here in kHz.
VelToFreq(v) ==
    [i \in DOMAIN v |-> HI_REST_FREQ - ((HI_REST_FREQ * v[i]) \div SPEED_OF_LIGHT)]

\* Lines 104-109 of download: the centre, or None when the code raises.
DownloadCentre(name, ra, dec) ==
    IF name # None THEN Some(FromName(name[1]))
    ELSE IF ra # None /\ dec # None THEN Some([ra |-> ra[1], dec |-> dec[1]])
    ELSE None

\* Lines 112-120 of download: the band, or None when the code raises.  Line
\* 112 rebinds the parameter freq to None before it is tested.
DownloadBand(freq_arg, vel) ==
    LET freq == None
    IN IF freq # None THEN Some(FreqToBand(freq[1]))
       ELSE IF vel # None THEN Some(SortAsc(VelToFreq(vel[1])))
       ELSE None

CENTRE_ERROR == "Exception: Either --name or --ra and --deg arguments are required."
FREQ_ERROR == "Exception: Either --freq [MHz] or --vel [km/s] range must be provided (space separated)"
InvalidTargetErrors == {CENTRE_ERROR, FREQ_ERROR}

\* ------------------------------------------------------- the remote archive
\* One observation of the archive: the number of image and weight rows it
\* holds, its pointing relative to the field centre, and whether its files
\* are MilkyWay cubes.
\* Pointings at the centre, just inside the threshold, and on it on either
\* side.
RaOffsets == {-SEPARATION, 0, SEPARATION - 1, SEPARATION}
DecOffsets == {-SEPARATION, 0, SEPARATION - 1, SEPARATION}
ObsParams ==
    [nimg : 0..MaxGroup, nwgt : 0..MaxGroup, dra : RaOffsets, ddec : DecOffsets,
     mw : BOOLEAN]
\* The first observation takes every shape at the centre and on the
\* threshold, and is a regular pair of one image and one weight cube at every
\* pointing; the second is a regular pair at the centre or on the threshold.
RegularPair(p) == p.nimg = 1 /\ p.nwgt = 1 /\ ~p.mw
ParamsOf(o) ==
    IF o = SB1
    THEN {p \in ObsParams : RegularPair(p) \/ {p.dra, p.ddec} \subseteq {0, SEPARATION}}
    ELSE {p \in ObsParams : RegularPair(p) /\ {p.dra, p.ddec} \subseteq {0, SEPARATION}}
\* Filenames are unique across the archive, or repeat from one observation to
\* the next.
Namings == {"unique", "shared"}
ObsOrder == <<SB1, SB12>>

FileNo(o, i, naming) == IF naming = "unique" THEN (Len(o) - 1) * MaxGroup + i ELSE i

Row(o, p, sub, i, naming) ==
    [obs_id |-> o,
     filename |-> [milkyway |-> p.mw, subtype |-> sub, no |-> FileNo(o, i, naming)],
     dataproduct_subtype |-> sub,
     s_ra |-> 150000000 + p.dra,
     s_dec |-> -30000000 + p.ddec]

ObsRows(o, p, naming) ==
    [i \in 1..p.nimg |-> Row(o, p, IMAGE_SUBTYPE, i, naming)]
    \o [i \in 1..p.nwgt |-> Row(o, p, WEIGHT_SUBTYPE, i, naming)]

RECURSIVE TableOf(_, _, _)
TableOf(order, params, naming) ==
    IF order = <<>> THEN <<>>
    ELSE ObsRows(Head(order), params[Head(order)], naming)
         \o TableOf(Tail(order), params, naming)

Archives ==
    {TableOf(ObsOrder, params, naming) :
        params \in {f \in [ObsIds -> ObsParams] : \A o \in ObsIds : f[o] \in ParamsOf(o)},
        naming \in Namings}

\* The archive of the spec's end-to-end scenario: two observations, each with
\* one image and one weight row.
EndToEndArchive ==
    TableOf(ObsOrder,
            [o \in ObsIds |-> [nimg |-> 1, nwgt |-> 1, dra |-> 0, ddec |-> 0, mw |-> FALSE]],
            "unique")

\* One observation with one image and one weight row.
SingleObsArchive == SelectSeq(EndToEndArchive, LAMBDA r : r.obs_id = SB1)

\* The archives each run is explored against: every archive for the
\* end-to-end target without allow-list, the end-to-end archive for each
\* allow-list, one observation for the other targets.
ArchivesFor(a) ==
    IF ~EndToEndTarget(a) THEN {SingleObsArchive}
    ELSE IF a.sbids # None THEN {EndToEndArchive}
    ELSE Archives

\* ------------------------------------------------------------- result filter
\* A region filter that keeps the records on the threshold.
FilterSubsetInclusive(observations, c, milkyway) ==
    LET MwOk(r) == r.filename.milkyway = milkyway
        RaOk(r) == Abs(r.s_ra - c.ra) <= SEPARATION
        DecOk(r) == Abs(r.s_dec - c.dec) <= SEPARATION
    IN SelectSeq(SelectSeq(SelectSeq(observations, MwOk), RaOk), DecOk)

\* Lines 133-135 of download.
FilterSubset(observations, c, milkyway) ==
    LET MwOk(r) == r.filename.milkyway = milkyway
        RaOk(r) == Abs(r.s_ra - c.ra) < SEPARATION
        DecOk(r) == Abs(r.s_dec - c.dec) < SEPARATION
    IN SelectSeq(SelectSeq(SelectSeq(observations, MwOk), RaOk), DecOk)

\* subset[subset['obs_id'] == obs_id] restricted to one subtype (lines 73-74).
Group(table, o, sub) ==
    LET Is(r) == r.obs_id = o /\ r.dataproduct_subtype = sub
    IN SelectSeq(table, Is)

\* A loop without the allow-list test of lines 148-151.
ProcessedObsIgnoresSbids(table, sbids) == {table[i].obs_id : i \in DOMAIN table}

\* Lines 146-151: the observations the loop does not `continue` past.
ProcessedObs(table, sbids) ==
    {o \in {table[i].obs_id : i \in DOMAIN table} :
        sbids = None \/ \E j \in DOMAIN sbids[1] : IsSubstring(sbids[1][j], o)}

\* list(set(...)): the orders in which a set can be enumerated.
Orders(S) == {s \in [1..Cardinality(S) -> S] : Range(s) = S}

\* ------------------------------------------------------------ cutout service
\* A URL is its last path component: the catalog file it is a cutout of, the
\* part number, and the dot-separated extensions that follow.
CutoutUrl(r, part) == [of |-> r.filename, part |-> part, ext |-> <<"fits">>]
ChecksumUrl(r, part) == [of |-> r.filename, part |-> part, ext |-> <<"fits", "checksum">>]

RECURSIVE WithSidecars(_)
WithSidecars(fl) ==
    IF fl = <<>> THEN <<>>
    ELSE <<CutoutUrl(Head(fl), 1), ChecksumUrl(Head(fl), 1)>> \o WithSidecars(Tail(fl))

\* What casda.cutout may return for a group: one cutout and one checksum per
\* row, the same with the last row's product dropped, or with the last row's
\* product split in two.
CutoutResponses(fl) ==
    {WithSidecars(fl),
     WithSidecars(SubSeq(fl, 1, Len(fl) - 1)),
     WithSidecars(fl) \o <<CutoutUrl(fl[Len(fl)], 2), ChecksumUrl(fl[Len(fl)], 2)>>}

\* [f for f in ... if '.checksum' not in f]
NoChecksum(urls) ==
    LET Keep(u) == "checksum" \notin Range(u.ext)
    IN SelectSeq(urls, Keep)

\* os.path.join(output, url.rsplit('/')[-1])
LocalPath(url) ==
    [dir |-> "output", stem |-> [of |-> url.of, part |-> url.part], suffixes |-> url.ext]

\* ----------------------------------------------------- _cutout_and_download
IdleOp == [state |-> "none", exc |-> "", nurls |-> 0, result |-> <<>>]
RunningOp == [IdleOp EXCEPT !.state = "running"]
RaisedOp(e, n) == [state |-> "raised", exc |-> e, nurls |-> n, result |-> <<>>]
FILE_LIST_ERROR == "IndexError: file_list[0]"
SERVICE_ERROR == "ServiceError: casda.cutout"
URL_LIST_ERROR == "IndexError: url_list[0]"

\* A job that returns one entry per record of its group that has a URL.
CutoutAndDownloadPerRecord(file_list, response) ==
    IF file_list = <<>> THEN RaisedOp(FILE_LIST_ERROR, 0)
    ELSE IF ~response.ok THEN RaisedOp(SERVICE_ERROR, 0)
    ELSE LET url_list == NoChecksum(response.urls)
             n == IF Len(url_list) < Len(file_list) THEN Len(url_list) ELSE Len(file_list)
         IN IF url_list = <<>> THEN RaisedOp(URL_LIST_ERROR, 0)
            ELSE [state |-> "done", exc |-> "", nurls |-> Len(url_list),
                  result |-> [i \in 1..n |-> [k |-> file_list[i].filename,
                                              v |-> LocalPath(url_list[i])]]]

\* Lines 59-66 on the rows file_list, given what casda.cutout answers:
\* response.ok is FALSE when the service call raises.
CutoutAndDownload(file_list, response) ==
    IF file_list = <<>> THEN RaisedOp(FILE_LIST_ERROR, 0)
    ELSE IF ~response.ok THEN RaisedOp(SERVICE_ERROR, 0)
    ELSE LET filename == file_list[1].filename
             url_list == NoChecksum(response.urls)
         IN IF url_list = <<>> THEN RaisedOp(URL_LIST_ERROR, 0)
            ELSE [state |-> "done", exc |-> "", nurls |-> Len(url_list),
                  result |-> <<[k |-> filename, v |-> LocalPath(url_list[1])]>>]

ServiceAnswers(file_list) ==
    IF file_list = <<>> THEN {[ok |-> FALSE, urls |-> <<>>]}
    ELSE {[ok |-> TRUE, urls |-> u] : u \in CutoutResponses(file_list)}
         \cup {[ok |-> FALSE, urls |-> <<>>]}

\* Lines 165-167: fold the task results, in task_list order, into the dicts.
RECURSIVE MergeResults(_, _, _)
MergeResults(order, ops, sub) ==
    IF order = <<>> THEN <<>>
    ELSE DictUnion(MergeResults(SubSeq(order, 1, Len(order) - 1), ops, sub),
                   ops[<<order[Len(order)], sub>>].result)

\* ------------------------------------------------- casda.cutout.main helpers
\* Lines 71-76 of casda/cutout.py: the centre, or None when the code raises.
MainCentre(name, ra, dec) ==
    IF name # None THEN Some(FromName(name[1]))
    ELSE IF ra # None /\ dec # None THEN Some([ra |-> ra[1], dec |-> dec[1]])
    ELSE None

\* Lines 79-87 of casda/cutout.py: the band, or None when the code raises.
MainBand(freq, vel) ==
    IF freq # None THEN Some(FreqToBand(freq[1]))
    ELSE IF vel # None THEN Some(SortAsc(VelToFreq(vel[1])))
    ELSE None

\* Lines 100-102 of casda/cutout.py.
MainFilterSubset(observations, c, milkyway) ==
    LET MwOk(r) == r.filename.milkyway = milkyway
        RaOk(r) == Abs(r.s_ra - c.ra) < SEPARATION
        DecOk(r) == Abs(r.s_dec - c.dec) < SEPARATION
    IN SelectSeq(SelectSeq(SelectSeq(observations, MwOk), RaOk), DecOk)

\* table.sort('filename'): filenames of one subtype order by their number.
RECURSIVE SortByFilename(_)
SortByFilename(t) ==
    IF t = <<>> THEN <<>>
    ELSE LET m == Min({t[i].filename.no : i \in DOMAIN t})
             i == CHOOSE j \in DOMAIN t :
                     t[j].filename.no = m /\ \A h \in 1..(j - 1) : t[h].filename.no # m
             rest == [j \in 1..(Len(t) - 1) |-> IF j < i THEN t[j] ELSE t[j + 1]]
         IN <<t[i]>> \o SortByFilename(rest)

\* Lines 109-112: the rows of one subtype, sorted by filename.
MainGroup(table, sub) ==
    LET Is(r) == r.dataproduct_subtype = sub
    IN SortByFilename(SelectSeq(table, Is))

\* dict(zip(keys, values))
RECURSIVE DictZip(_, _)
DictZip(keys, values) ==
    IF keys = <<>> \/ values = <<>> THEN <<>>
    ELSE DictSet(DictZip(SubSeq(keys, 1, Len(keys) - 1), SubSeq(values, 1, Len(values) - 1)),
                 keys[Len(keys)], values[Len(values)])

\* Lines 127-132 for one subtype: the assertion on the counts, then the dict
\* from catalog filename to cutout URL.
MainReconcile(rows, urls) ==
    LET nochecksum == NoChecksum(urls)
    IN IF Len(nochecksum) # Len(rows)
       THEN [ok |-> FALSE, dict |-> <<>>]
       ELSE [ok |-> TRUE,
             dict |-> DictZip([i \in DOMAIN rows |-> rows[i].filename], nochecksum)]

\* What casda.cutout may return for the table of one subtype.
MainResponses(rows) ==
    IF rows = <<>> THEN {<<>>} ELSE CutoutResponses(rows)

\* -------------------------------------------------- mosaic config generator
\* Path.with_suffix(''): the path without its last suffix.
WithSuffixStripped(path) ==
    [path EXCEPT !.suffixes = SubSeq(path.suffixes, 1, Len(path.suffixes) - 1)]

\* os.path.join(workdir, args.filename), os.path.join(workdir,
\* f'weights.{args.filename}') for the default --filename mosaic.fits.
OutputImage == [dir |-> "output", stem |-> "mosaic", suffixes |-> <<"fits">>]
OutputWeights == [dir |-> "output", stem |-> "weights", suffixes |-> <<"mosaic", "fits">>]

\* template/linmos.j2 rendered on its arguments: the lists in the order given.
RenderTemplate(images, weights, image_out, weight_out, image_history) ==
    [names |-> images, weights |-> weights, outname |-> image_out,
     outweight |-> weight_out, history |-> image_history]

\* generate_config, lines 65-79: the text written to the config file.
GenerateConfigText(image_d, weights_d, output_image, output_weights) ==
    LET images == ValueList(image_d)
        weights == ValueList(weights_d)
        image_history == KeyList(image_d) \o KeyList(weights_d)
    IN RenderTemplate([i \in DOMAIN images |-> WithSuffixStripped(images[i])],
                      [i \in DOMAIN weights |-> WithSuffixStripped(weights[i])],
                      WithSuffixStripped(output_image),
                      WithSuffixStripped(output_weights),
                      image_history)

\* linmos_config.generate, lines 14-28: the text written to the config file.
\* The paths go to the template as they are.
LinmosConfigGenerateText(image_d, weights_d, output_image, output_weights) ==
    LET images == ValueList(image_d)
        weights == ValueList(weights_d)
        image_history == KeyList(image_d) \o KeyList(weights_d)
    IN RenderTemplate(images, weights, output_image, output_weights, image_history)

\* File maps handed to generate_config when it is run on its own: every
\* insertion order of every set of up to MaxFiles downloaded cutouts.
InputItem(sub, i) ==
    LET r == Row(SB1, [nimg |-> i, nwgt |-> i, dra |-> 0, ddec |-> 0, mw |-> FALSE],
                 sub, i, "unique")
    IN [k |-> r.filename, v |-> LocalPath(CutoutUrl(r, 1))]

InputDicts(sub) ==
    UNION {Orders(S) : S \in SUBSET {InputItem(sub, i) : i \in 1..MaxFiles}}

\* --account, --time and --mem: the defaults of parse_args and one other value.
DefaultSbatchKwargs == [account |-> "ja3", time |-> "1:00:00", mem |-> "32G"]
SbatchKwargs == [account : {"ja3", "pawsey0411"}, time : {"1:00:00"}, mem : {"32G", "64G"}]

\* The config file a runner that is called on its own may find: none, or one
\* that generate_config wrote.
ExistingConfigs ==
    {None,
     Some(GenerateConfigText(<<InputItem(IMAGE_SUBTYPE, 1)>>, <<InputItem(WEIGHT_SUBTYPE, 1)>>,
                             OutputImage, OutputWeights))}

\* --------------------------------------------------------- output directory
\* A makedirs that is called whether or not the directory exists.
CreateAlways(exists, n) == n + 1

\* `if not os.path.exists(d): os.makedirs(d)`: the number of makedirs calls
\* after the statement, n before it.
CreateIfAbsent(exists, n) == IF exists THEN n ELSE n + 1

\* ------------------------------------------------------------ mosaic runners
\* The defaults of --singularity, --scratch and --askapsoft, and the config
\* path os.path.join(workdir, 'linmos.conf').
SingularityModule == "singularity/4.1.0-mpi"
ScratchMount == "/scratch"
Container == "askapsoft.sif"
LinmosConfigPath == [dir |-> "output", stem |-> "linmos", suffixes |-> <<"conf">>]

\* run_linmos, lines 25-32: the lines of linmos.sh, each the tuple of its
\* tokens.
JobScript(kwargs) ==
    << <<"#!/bin/bash">>,
       <<"#SBATCH", "--account", kwargs.account>>,
       <<"#SBATCH", "--time", kwargs.time>>,
       <<"#SBATCH", "--mem", kwargs.mem>>,
       <<"module", "load", SingularityModule>>,
       <<"singularity", "exec", "--bind", ScratchMount, ScratchMount, Container,
         "linmos", "-c", LinmosConfigPath>> >>

\* A chmod that leaves the mode as it is.
ModeUnchanged(mode) == mode

\* run_linmos, line 36: os.chmod(sbatch_file, st.st_mode | stat.S_IEXEC), on
\* the owner-execute bit.
WithExec(mode) == TRUE

CONTAINER_ERROR == "Exception: ASKAPsoft image not found"
CONFIG_ERROR == "Exception: Linmos config not found"
SUBMIT_ERROR == "CalledProcessError: sbatch"
DOCKER_ERROR == "CalledProcessError: docker run"
PIPELINE_ERROR == "Exception: Pipeline error did not produce mosaicked images or weights"
BINDING_ERROR == "TypeError: missing required argument"
UNPACK_ERROR == "TypeError: cannot unpack non-iterable NoneType object"

\* Exit statuses of the scheduler CLI, and of docker run: of the mosaic tool
\* when the image resolves, 125 when it does not.
SbatchExits == {0, 1}
DockerExits(resolvable) == IF resolvable THEN {0, 1} ELSE {125}

\* pipeline.mosaic, lines 57-59: the runner the workflow calls.
MosaicRunner(a) == RUN_LINMOS

\* A workflow that goes on to its next step whether or not the last one
\* raised.
FlowIgnoresFailure(step, raised) ==
    CASE step = "download_cutouts" -> "generate_mosaic_config"
      [] step = "generate_mosaic_config" -> "mosaic"
      [] step = "mosaic" -> "check_outputs"

\* cutout_mosaic, lines 76-90: the steps follow one another, and an exception
\* of a step ends the flow.
FlowAfter(step, raised) ==
    IF raised THEN "failed"
    ELSE CASE step = "download_cutouts" -> "generate_mosaic_config"
           [] step = "generate_mosaic_config" -> "mosaic"
           [] step = "mosaic" -> "check_outputs"

\* ------------------------------------------------------------------- state
VARIABLES
    entry,          \* the entry point that is run
    args,           \* the namespace parse_args returned
    flow,           \* position of the caller of download
    pc,             \* position of download
    exc,            \* the exception that ended the run, "" when none
    calls,          \* remote calls the coordinator has made so far
    centre,         \* resolved centre, None before
    band,           \* resolved frequency band, None before
    subset,         \* the filtered table
    output_exists,  \* whether the output directory exists
    task_list,      \* obs ids in the order their tasks were created
    task,           \* state of each _casda_download_subset task
    op,             \* state of each _cutout_and_download executor job
    image_dict,
    weights_dict,
    file_map,       \* content of file_map.json, None while not written
    ret,            \* return value of download
    config,         \* content of the linmos config file, None while not written
    submitted,      \* number of run_in_executor calls made for each job
    makedirs,       \* number of os.makedirs calls made on the output directory
    container_exists, \* whether the container image can be resolved
    sbatch_kwargs,  \* account, time and mem handed to run_linmos
    sbatch_file,    \* content of linmos.sh, None while not written
    executable,     \* S_IEXEC bit of linmos.sh
    procs,          \* the subprocesses spawned so far, in order
    rpc,            \* position of the runner
    outputs_exist   \* whether the mosaic image and weights files exist

\* The variables of the runners and of the workflow's mosaic stage.
mvars == <<container_exists, sbatch_kwargs, sbatch_file, executable, procs, rpc,
           outputs_exist>>

\* The variables of download and of its tasks and jobs.
dvars == <<args, pc, calls, centre, band, subset, output_exists, task_list, task, op,
           image_dict, weights_dict, file_map, ret, submitted, makedirs>>

vars == <<entry, args, flow, pc, exc, calls, centre, band, subset, output_exists,
          task_list, task, op, image_dict, weights_dict, file_map, ret, config,
          submitted, makedirs, mvars>>

OpKeys == ObsIds \X Subtypes

\* The remote calls a finished _cutout_and_download has made: none when
\* line 59 raised, casda.cutout when that call raised, casda.cutout and
\* casda.download_files otherwise.
OpCalls(r) ==
    IF r.state \in {"none", "running"} \/ r.exc = FILE_LIST_ERROR THEN {}
    ELSE IF r.exc = SERVICE_ERROR THEN {"cutout"}
    ELSE {"cutout", "download_files"}

\* Every remote call made so far: by the coordinator and by the executor jobs.
RemoteCalls == calls \cup UNION {OpCalls(op[x]) : x \in OpKeys}

Init ==
    /\ entry \in Entries
    /\ args \in CliArgsOf(entry)
    /\ flow = (IF entry = MOSAIC_STAGE THEN "generate_mosaic_config" ELSE "start")
    /\ pc = (IF entry = MOSAIC_STAGE THEN "returned" ELSE "idle")
    /\ exc = ""
    /\ calls = {}
    /\ centre = None
    /\ band = None
    /\ subset = <<>>
    /\ output_exists \in (IF entry \in {CASDA_MAIN, CUTOUT_MAIN, PIPELINE} THEN BOOLEAN
                          ELSE {entry = MOSAIC_STAGE})
    /\ task_list = <<>>
    /\ task = [o \in ObsIds |-> "none"]
    /\ op = [x \in OpKeys |-> IdleOp]
    /\ image_dict \in (IF entry \in GeneratorEntries \cup {MOSAIC_STAGE}
                       THEN InputDicts(IMAGE_SUBTYPE) ELSE {<<>>})
    /\ weights_dict \in (IF entry \in GeneratorEntries \cup {MOSAIC_STAGE}
                         THEN InputDicts(WEIGHT_SUBTYPE) ELSE {<<>>})
    /\ file_map = (IF entry = MOSAIC_STAGE THEN Some(DictUnion(image_dict, weights_dict))
                   ELSE None)
    /\ ret = (IF entry = MOSAIC_STAGE THEN Some(<<image_dict, weights_dict>>) ELSE None)
    /\ config \in (IF entry \in RunnerEntries THEN ExistingConfigs ELSE {None})
    /\ submitted = [x \in OpKeys |-> 0]
    /\ makedirs = 0
    /\ container_exists \in (IF entry \in RunnerEntries \cup WorkflowEntries
                             THEN BOOLEAN ELSE {FALSE})
    /\ sbatch_kwargs \in (IF entry \in {RUN_LINMOS, MOSAIC_STAGE}
                          THEN SbatchKwargs ELSE {DefaultSbatchKwargs})
    /\ sbatch_file = None
    /\ executable = FALSE
    /\ procs = <<>>
    /\ rpc = (IF entry = RUN_LINMOS THEN "check"
              ELSE IF entry = RUN_LINMOS_DOCKER THEN "docker_check"
              ELSE "idle")
    /\ outputs_exist = FALSE

\* ---------------------------------------------------------------- download
\* cutout_mosaic, lines 66-73: create the work directory when it is absent.
PipelineSetup ==
    /\ entry = PIPELINE
    /\ flow = "start"
    /\ output_exists' = TRUE
    /\ makedirs' = CreateIfAbsent(output_exists, makedirs)
    /\ flow' = "download_cutouts"
    /\ UNCHANGED <<entry, args, pc, exc, calls, centre, band, subset,
                   task_list, task, op, image_dict, weights_dict, file_map, ret, config,
                   submitted, mvars>>

\* main (lines 185-187) and download_cutouts (pipeline.py, line 48):
\* download(**args.__dict__) binds the namespace to download's parameters.
CallDownload ==
    /\ \/ entry = CASDA_MAIN /\ flow = "start"
       \/ entry = PIPELINE /\ flow = "download_cutouts"
    /\ IF DownloadParams \subseteq ParseArgsDests(entry)
       THEN /\ flow' = "await"
            /\ pc' = "authenticate"
            /\ exc' = exc
       ELSE /\ flow' = (IF entry = PIPELINE THEN FlowAfter("download_cutouts", TRUE)
                        ELSE "failed")
            /\ pc' = pc
            /\ exc' = BINDING_ERROR
    /\ UNCHANGED <<entry, args, calls, centre, band, subset, output_exists,
                   task_list, task, op, image_dict, weights_dict, file_map, ret, config,
                   submitted, makedirs, mvars>>

\* Lines 86-101: read the credentials, log in to CASDA.
Authenticate ==
    /\ pc = "authenticate"
    /\ calls' = calls \cup {"login"}
    /\ pc' = "centre"
    /\ UNCHANGED <<entry, args, flow, exc, centre, band, subset, output_exists,
                   task_list, task, op, image_dict, weights_dict, file_map, ret, config,
                   submitted, makedirs, mvars>>

\* Lines 103-110: object coordinates.
ResolveCentre ==
    /\ pc = "centre"
    /\ LET c == DownloadCentre(args.name, args.ra, args.dec)
       IN /\ calls' = IF args.name # None THEN calls \cup {"from_name"} ELSE calls
          /\ centre' = c
          /\ IF c = None
             THEN pc' = "raised" /\ exc' = CENTRE_ERROR
             ELSE pc' = "freq" /\ exc' = exc
    /\ UNCHANGED <<entry, args, flow, band, subset, output_exists,
                   task_list, task, op, image_dict, weights_dict, file_map, ret, config,
                   submitted, makedirs, mvars>>

\* Lines 112-121: frequency band.
ResolveFreq ==
    /\ pc = "freq"
    /\ LET b == DownloadBand(args.freq, args.vel)
       IN /\ band' = b
          /\ IF b = None
             THEN pc' = "raised" /\ exc' = FREQ_ERROR
             ELSE pc' = "query" /\ exc' = exc
    /\ UNCHANGED <<entry, args, flow, calls, centre, subset, output_exists,
                   task_list, task, op, image_dict, weights_dict, file_map, ret, config,
                   submitted, makedirs, mvars>>

\* Lines 123-139: the TAP query, the filters, and the early return when
\* nothing is left.
QueryAndFilter ==
    /\ pc = "query"
    /\ \E observations \in ArchivesFor(args) :
          LET s == FilterSubset(observations, centre[1], args.milkyway)
          IN /\ subset' = s
             /\ pc' = IF Len(s) = 0 THEN "returned" ELSE "mkdir"
    /\ calls' = calls \cup {"tap"}
    /\ UNCHANGED <<entry, args, flow, exc, centre, band, output_exists,
                   task_list, task, op, image_dict, weights_dict, file_map, ret, config,
                   submitted, makedirs, mvars>>

\* Lines 141-143.
MakeOutput ==
    /\ pc = "mkdir"
    /\ output_exists' = TRUE
    /\ makedirs' = CreateIfAbsent(output_exists, makedirs)
    /\ pc' = "spawn"
    /\ UNCHANGED <<entry, args, flow, exc, calls, centre, band, subset,
                   task_list, task, op, image_dict, weights_dict, file_map, ret, config,
                   submitted, mvars>>

\* Lines 145-160: one task per observation that passes the sbids filter, in
\* the order the set of obs ids is enumerated.
CreateTasks ==
    /\ pc = "spawn"
    /\ \E order \in Orders(ProcessedObs(subset, args.sbids)) :
          /\ task_list' = order
          /\ task' = [o \in ObsIds |-> IF o \in Range(order) THEN "created" ELSE "none"]
    /\ pc' = "gather"
    /\ UNCHANGED <<entry, args, flow, exc, calls, centre, band, subset, output_exists,
                   op, image_dict, weights_dict, file_map, ret, config,
                   submitted, makedirs, mvars>>

\* _casda_download_subset, lines 73-76: split the observation's rows and hand
\* both groups to the executor; the task then waits in its gather.
TaskStart(o) ==
    /\ pc = "gather"
    /\ task[o] = "created"
    /\ task' = [task EXCEPT ![o] = "awaiting"]
    /\ op' = [op EXCEPT ![<<o, IMAGE_SUBTYPE>>] = RunningOp,
                        ![<<o, WEIGHT_SUBTYPE>>] = RunningOp]
    /\ submitted' = [submitted EXCEPT ![<<o, IMAGE_SUBTYPE>>] = @ + 1,
                                      ![<<o, WEIGHT_SUBTYPE>>] = @ + 1]
    /\ UNCHANGED <<entry, args, flow, pc, exc, calls, centre, band, subset,
                   output_exists, task_list, image_dict, weights_dict, file_map, ret, config,
                   makedirs, mvars>>

\* A worker thread runs _cutout_and_download for one group.
OpRun(o, sub) ==
    /\ op[<<o, sub>>].state = "running"
    /\ LET file_list == Group(subset, o, sub)
       IN \E response \in ServiceAnswers(file_list) :
             op' = [op EXCEPT ![<<o, sub>>] = CutoutAndDownload(file_list, response)]
    /\ UNCHANGED <<entry, args, flow, pc, exc, calls, centre, band, subset, output_exists,
                   task_list, task, image_dict, weights_dict, file_map, ret, config,
                   submitted, makedirs, mvars>>

\* The gather of lines 77 and 164 takes no return_exceptions: it ends with
\* the first exception of its awaitables, or with all their results, and
\* waits otherwise.
GatherSwallowsExceptions(states) ==
    IF states \subseteq {"done", "raised", "failed"} THEN "done" ELSE "awaiting"

\* A gather that ends as soon as one of its awaitables has a result.
GatherFirstCompleted(states) ==
    IF states \cap {"raised", "failed"} # {} THEN "failed"
    ELSE IF states \cap {"done"} # {} \/ states = {} THEN "done"
    ELSE "awaiting"

\* A gather that does not wait for its awaitables.
GatherWithoutWaiting(states) ==
    IF states \cap {"raised", "failed"} # {} THEN "failed" ELSE "done"

GatherOutcome(states) ==
    IF states \cap {"raised", "failed"} # {} THEN "failed"
    ELSE IF states \subseteq {"done"} THEN "done"
    ELSE "awaiting"

\* _casda_download_subset, lines 77-78: asyncio.gather over the two jobs.
\* The event loop runs the first step of every task it was given before it
\* delivers the completion of any job.
TaskJoin(o) ==
    /\ pc \in {"gather", "raised"}
    /\ flow = "await"
    /\ task[o] = "awaiting"
    /\ \A t \in Range(task_list) : task[t] # "created"
    /\ LET out == GatherOutcome({op[<<o, IMAGE_SUBTYPE>>].state,
                                 op[<<o, WEIGHT_SUBTYPE>>].state})
       IN /\ out # "awaiting"
          /\ task' = [task EXCEPT ![o] = out]
    /\ UNCHANGED <<entry, args, flow, pc, exc, calls, centre, band, subset,
                   output_exists, task_list, op, image_dict, weights_dict, file_map, ret, config,
                   submitted, makedirs, mvars>>

\* Line 164 when a task has failed: the exception leaves download.
GatherRaise ==
    /\ pc = "gather"
    /\ GatherOutcome({task[o] : o \in Range(task_list)}) = "failed"
    /\ \E o \in Range(task_list) :
          /\ task[o] = "failed"
          /\ \E x \in {<<o, IMAGE_SUBTYPE>>, <<o, WEIGHT_SUBTYPE>>} :
                /\ op[x].state = "raised"
                /\ exc' = op[x].exc
    /\ pc' = "raised"
    /\ UNCHANGED <<entry, args, flow, calls, centre, band, subset, output_exists,
                   task_list, task, op, image_dict, weights_dict, file_map, ret, config,
                   submitted, makedirs, mvars>>

\* Lines 162-182 once every task has finished: merge, write file_map.json,
\* return both dicts.  The downloaded files are taken to exist when line 173
\* reads their sizes.
Finalise ==
    /\ pc = "gather"
    /\ GatherOutcome({task[o] : o \in Range(task_list)}) = "done"
    /\ LET img == MergeResults(task_list, op, IMAGE_SUBTYPE)
           wgt == MergeResults(task_list, op, WEIGHT_SUBTYPE)
       IN /\ image_dict' = img
          /\ weights_dict' = wgt
          /\ file_map' = Some(DictUnion(img, wgt))
          /\ ret' = Some(<<img, wgt>>)
    /\ pc' = "returned"
    /\ UNCHANGED <<entry, args, flow, exc, calls, centre, band, subset, output_exists,
                   task_list, task, op, config, submitted, makedirs, mvars>>

\* main, line 187, and download_cutouts, pipeline.py line 48:
\* `image_dict, weights_dict = await download(...)`.
CallerResume ==
    /\ entry \in {CASDA_MAIN, PIPELINE}
    /\ flow = "await"
    /\ LET raised == pc = "raised" \/ ret = None
       IN /\ flow' = (IF entry = PIPELINE THEN FlowAfter("download_cutouts", raised)
                      ELSE IF raised THEN "failed" ELSE "done")
          /\ \/ /\ pc = "raised"
                /\ exc' = exc
             \/ /\ pc = "returned"
                /\ exc' = (IF ret = None THEN UNPACK_ERROR ELSE exc)
    /\ UNCHANGED <<entry, args, pc, calls, centre, band, subset, output_exists,
                   task_list, task, op, image_dict, weights_dict, file_map, ret, config,
                   submitted, makedirs, mvars>>

\* ------------------------------------------------------ casda.cutout.main
\* Lines 57-68 of casda/cutout.py: read the credentials, log in to CASDA.
MainAuthenticate ==
    /\ entry = CUTOUT_MAIN
    /\ flow = "start"
    /\ calls' = calls \cup {"login"}
    /\ flow' = "await"
    /\ pc' = "main_centre"
    /\ UNCHANGED <<entry, args, exc, centre, band, subset, output_exists,
                   task_list, task, op, image_dict, weights_dict, file_map, ret, config,
                   submitted, makedirs, mvars>>

\* Lines 70-77 of casda/cutout.py.
MainResolveCentre ==
    /\ pc = "main_centre"
    /\ LET c == MainCentre(args.name, args.ra, args.dec)
       IN /\ calls' = IF args.name # None THEN calls \cup {"from_name"} ELSE calls
          /\ centre' = c
          /\ IF c = None
             THEN pc' = "raised" /\ exc' = CENTRE_ERROR /\ flow' = "failed"
             ELSE pc' = "main_freq" /\ exc' = exc /\ flow' = flow
    /\ UNCHANGED <<entry, args, band, subset, output_exists,
                   task_list, task, op, image_dict, weights_dict, file_map, ret, config,
                   submitted, makedirs, mvars>>

\* Lines 79-88 of casda/cutout.py.
MainResolveFreq ==
    /\ pc = "main_freq"
    /\ LET b == MainBand(args.freq, args.vel)
       IN /\ band' = b
          /\ IF b = None
             THEN pc' = "raised" /\ exc' = FREQ_ERROR /\ flow' = "failed"
             ELSE pc' = "main_query" /\ exc' = exc /\ flow' = flow
    /\ UNCHANGED <<entry, args, calls, centre, subset, output_exists,
                   task_list, task, op, image_dict, weights_dict, file_map, ret, config,
                   submitted, makedirs, mvars>>

\* Lines 90-106 of casda/cutout.py.
MainQueryAndFilter ==
    /\ pc = "main_query"
    /\ \E observations \in ArchivesFor(args) :
          LET s == MainFilterSubset(observations, centre[1], args.milkyway)
          IN /\ subset' = s
             /\ pc' = IF Len(s) = 0 THEN "returned" ELSE "main_cutout"
             /\ flow' = IF Len(s) = 0 THEN "done" ELSE flow
    /\ calls' = calls \cup {"tap"}
    /\ UNCHANGED <<entry, args, exc, centre, band, output_exists,
                   task_list, task, op, image_dict, weights_dict, file_map, ret, config,
                   submitted, makedirs, mvars>>

\* Lines 108-137 of casda/cutout.py: cutouts of all image rows and of all
\* weight rows, the downloads, and the reconciliation of rows and URLs.
MainCutoutDownload ==
    /\ pc = "main_cutout"
    /\ LET images == MainGroup(subset, IMAGE_SUBTYPE)
           weights == MainGroup(subset, WEIGHT_SUBTYPE)
       IN \E iu \in MainResponses(images), wu \in MainResponses(weights) :
             LET i == MainReconcile(images, iu)
                 w == MainReconcile(weights, wu)
             IN IF i.ok /\ w.ok
                THEN /\ image_dict' = i.dict
                     /\ weights_dict' = w.dict
                     /\ ret' = Some(<<i.dict, w.dict>>)
                     /\ pc' = "returned" /\ flow' = "done" /\ exc' = exc
                ELSE /\ pc' = "raised" /\ flow' = "failed"
                     /\ exc' = "AssertionError: numbers of files and downloaded cutout files are not equal"
                     /\ UNCHANGED <<image_dict, weights_dict, ret>>
    /\ calls' = calls \cup {"cutout", "download_files"}
    /\ output_exists' = TRUE
    /\ makedirs' = CreateIfAbsent(output_exists, makedirs)
    /\ UNCHANGED <<entry, args, centre, band, subset,
                   task_list, task, op, file_map, config, submitted, mvars>>

\* ------------------------------------------------------- generate_config
\* linmos.generate_config run on its own, lines 57-86.
GenerateConfig ==
    /\ entry = GENERATE_CONFIG
    /\ flow = "start"
    /\ config' = Some(GenerateConfigText(image_dict, weights_dict, OutputImage, OutputWeights))
    /\ flow' = "done"
    /\ UNCHANGED <<entry, args, pc, exc, calls, centre, band, subset, output_exists,
                   task_list, task, op, image_dict, weights_dict, file_map, ret,
                   submitted, makedirs, mvars>>

\* linmos_config.generate run on its own, lines 8-34.
LinmosConfigGenerate ==
    /\ entry = LINMOS_CONFIG_GENERATE
    /\ flow = "start"
    /\ config' = Some(LinmosConfigGenerateText(image_dict, weights_dict,
                                               OutputImage, OutputWeights))
    /\ flow' = "done"
    /\ UNCHANGED <<entry, args, pc, exc, calls, centre, band, subset, output_exists,
                   task_list, task, op, image_dict, weights_dict, file_map, ret,
                   submitted, makedirs, mvars>>

\* ------------------------------------------------------------ mosaic stage
\* cutout_mosaic, lines 78-79, and generate_mosaic_config, lines 52-54.
GenerateMosaicConfig ==
    /\ entry \in WorkflowEntries
    /\ flow = "generate_mosaic_config"
    /\ config' = Some(GenerateConfigText(image_dict, weights_dict, OutputImage, OutputWeights))
    /\ flow' = FlowAfter("generate_mosaic_config", FALSE)
    /\ UNCHANGED <<entry, dvars, exc, mvars>>

\* cutout_mosaic, lines 83-89, and mosaic, lines 57-58: call the runner.
Mosaic ==
    /\ entry \in WorkflowEntries
    /\ flow = "mosaic"
    /\ rpc = "idle"
    /\ rpc' = (IF MosaicRunner(args) = RUN_LINMOS THEN "check" ELSE "docker_check")
    /\ UNCHANGED <<entry, dvars, flow, exc, config, container_exists, sbatch_kwargs,
                   sbatch_file, executable, procs, outputs_exist>>

\* run_linmos, lines 18-21.
RunLinmosCheck ==
    /\ rpc = "check"
    /\ IF ~container_exists THEN rpc' = "raised" /\ exc' = CONTAINER_ERROR
       ELSE IF config = None THEN rpc' = "raised" /\ exc' = CONFIG_ERROR
       ELSE rpc' = "write" /\ exc' = exc
    /\ UNCHANGED <<entry, dvars, flow, config, container_exists, sbatch_kwargs,
                   sbatch_file, executable, procs, outputs_exist>>

\* run_linmos, lines 23-34: write linmos.sh.
RunLinmosWrite ==
    /\ rpc = "write"
    /\ sbatch_file' = Some(JobScript(sbatch_kwargs))
    /\ rpc' = "chmod"
    /\ UNCHANGED <<entry, dvars, flow, exc, config, container_exists, sbatch_kwargs,
                   executable, procs, outputs_exist>>

\* run_linmos, lines 35-36.
RunLinmosChmod ==
    /\ rpc = "chmod"
    /\ executable' = WithExec(executable)
    /\ rpc' = "sbatch"
    /\ UNCHANGED <<entry, dvars, flow, exc, config, container_exists, sbatch_kwargs,
                   sbatch_file, procs, outputs_exist>>

\* run_linmos, lines 37-39: subprocess.run('sbatch linmos.sh', check=True).
\* The subprocess is recorded with the script as it is when it is spawned.
RunLinmosSubmit ==
    /\ rpc = "sbatch"
    /\ \E returncode \in SbatchExits :
          /\ procs' = Append(procs, [cmd |-> "sbatch", script |-> sbatch_file,
                                     executable |-> executable, returncode |-> returncode])
          /\ IF returncode = 0 THEN rpc' = "returned" /\ exc' = exc
             ELSE rpc' = "raised" /\ exc' = SUBMIT_ERROR
    /\ UNCHANGED <<entry, dvars, flow, config, container_exists, sbatch_kwargs,
                   sbatch_file, executable, outputs_exist>>

\* The batch job of an accepted submission runs linmos (line 31), which
\* writes the mosaic image and weights.
SlurmJob ==
    /\ \E i \in DOMAIN procs : procs[i].cmd = "sbatch" /\ procs[i].returncode = 0
    /\ ~outputs_exist
    /\ outputs_exist' = TRUE
    /\ UNCHANGED <<entry, dvars, flow, exc, config, container_exists, sbatch_kwargs,
                   sbatch_file, executable, procs, rpc>>

\* run_linmos_docker, lines 48-49.
RunLinmosDockerCheck ==
    /\ rpc = "docker_check"
    /\ IF config = None THEN rpc' = "raised" /\ exc' = CONFIG_ERROR
       ELSE rpc' = "docker_run" /\ exc' = exc
    /\ UNCHANGED <<entry, dvars, flow, config, container_exists, sbatch_kwargs,
                   sbatch_file, executable, procs, outputs_exist>>

\* run_linmos_docker, lines 50-53: subprocess.run('docker run ...',
\* check=True) runs linmos to its end.
RunLinmosDockerRun ==
    /\ rpc = "docker_run"
    /\ \E returncode \in DockerExits(container_exists) :
          /\ procs' = Append(procs, [cmd |-> "docker", script |-> None,
                                     executable |-> FALSE, returncode |-> returncode])
          /\ outputs_exist' = (outputs_exist \/ returncode = 0)
          /\ IF returncode = 0 THEN rpc' = "returned" /\ exc' = exc
             ELSE rpc' = "raised" /\ exc' = DOCKER_ERROR
    /\ UNCHANGED <<entry, dvars, flow, config, container_exists, sbatch_kwargs,
                   sbatch_file, executable>>

\* cutout_mosaic, line 89: the call of mosaic returns or raises.
MosaicReturn ==
    /\ entry \in WorkflowEntries
    /\ flow = "mosaic"
    /\ rpc \in {"returned", "raised"}
    /\ flow' = FlowAfter("mosaic", rpc = "raised")
    /\ UNCHANGED <<entry, dvars, exc, config, mvars>>

\* cutout_mosaic, lines 90-95.
CheckOutputs ==
    /\ entry \in WorkflowEntries
    /\ flow = "check_outputs"
    /\ IF outputs_exist THEN flow' = "done" /\ exc' = exc
       ELSE flow' = "failed" /\ exc' = PIPELINE_ERROR
    /\ UNCHANGED <<entry, dvars, config, mvars>>

Next ==
    \/ PipelineSetup
    \/ CallDownload
    \/ Authenticate
    \/ ResolveCentre
    \/ ResolveFreq
    \/ QueryAndFilter
    \/ MakeOutput
    \/ CreateTasks
    \/ \E o \in ObsIds : TaskStart(o)
    \/ \E o \in ObsIds, sub \in Subtypes : OpRun(o, sub)
    \/ \E o \in ObsIds : TaskJoin(o)
    \/ GatherRaise
    \/ Finalise
    \/ CallerResume
    \/ MainAuthenticate
    \/ MainResolveCentre
    \/ MainResolveFreq
    \/ MainQueryAndFilter
    \/ MainCutoutDownload
    \/ GenerateConfig
    \/ LinmosConfigGenerate
    \/ GenerateMosaicConfig
    \/ Mosaic
    \/ RunLinmosCheck
    \/ RunLinmosWrite
    \/ RunLinmosChmod
    \/ RunLinmosSubmit
    \/ SlurmJob
    \/ RunLinmosDockerCheck
    \/ RunLinmosDockerRun
    \/ MosaicReturn
    \/ CheckOutputs

Spec == Init /\ [][Next]_vars

\* ================================================================== claims
DownloadEntries == {CASDA_MAIN, PIPELINE}
Processed == ProcessedObs(subset, args.sbids)
InvalidTargetRaised == exc \in InvalidTargetErrors
Quiescent == ~ENABLED Next

\* C1: a _cutout_and_download job whose service answer holds a number of
\* non-checksum URLs different from the number of rows of its group does not
\* return a mapping: it raises.
C1_CountMismatchRaises ==
    \A x \in OpKeys :
        op[x].state = "done" => op[x].nurls = Len(Group(subset, x[1], x[2]))

\* C2: a job on n >= 1 rows that is answered with n non-checksum URLs returns
\* a mapping with n entries, one per catalog filename of the group, each
\* mapped to a local path that is no checksum file.
C2_OneEntryPerRecord ==
    \A x \in OpKeys :
        LET file_list == Group(subset, x[1], x[2])
        IN (op[x].state = "done" /\ Len(file_list) >= 1 /\ op[x].nurls = Len(file_list))
           => /\ Len(op[x].result) = Len(file_list)
              /\ Keys(op[x].result) = {file_list[i].filename : i \in DOMAIN file_list}
              /\ \A v \in Values(op[x].result) : "checksum" \notin Range(v.suffixes)

\* Rows of one subtype among the observations download processes.
SelectedRows(sub) ==
    LET Is(r) == r.obs_id \in Processed /\ r.dataproduct_subtype = sub
    IN SelectSeq(subset, Is)

\* C3: whenever file_map.json has been written, image_map has as many entries
\* as there are selected image rows and weight_map as many as there are
\* selected weight rows.
C3_FileMapSizes ==
    file_map # None =>
        /\ Len(image_dict) = Len(SelectedRows(IMAGE_SUBTYPE))
        /\ Len(weights_dict) = Len(SelectedRows(WEIGHT_SUBTYPE))

\* C4: once any _cutout_and_download job has raised, download never returns
\* file maps and never writes file_map.json, whatever the other jobs do, and
\* when nothing is left to run download has raised and its caller has failed.
C4_FailFast ==
    (\E x \in OpKeys : op[x].state = "raised") =>
        /\ file_map = None
        /\ ret = None
        /\ pc # "returned"
        /\ flow # "done"
        /\ Quiescent => (pc = "raised" /\ flow = "failed" /\ exc # "")

\* C4 witness: a job of one observation raised, a job of the other
\* observation completed, and the run has ended in failure.
C4_Witness ==
    /\ \E x, y \in OpKeys :
          x[1] # y[1] /\ op[x].state = "raised" /\ op[y].state = "done"
    /\ flow = "failed"
    /\ Quiescent

\* C5: when the filters leave no row, download returns a pair of empty maps,
\* makes no cutout or download call, raises nothing, and its caller does not
\* fail.
C5_EmptySelectionReturnsEmptyMaps ==
    (entry \in DownloadEntries /\ pc = "returned" /\ Len(subset) = 0) =>
        /\ RemoteCalls \cap {"cutout", "download_files"} = {}
        /\ exc = ""
        /\ flow # "failed"
        /\ ret = Some(<<<<>>, <<>>>>)

\* C6: when download raises the invalid-target error, no remote call (login,
\* name lookup, catalog query) has been made.
C6_InvalidTargetBeforeNetwork ==
    (entry \in DownloadEntries /\ InvalidTargetRaised) => RemoteCalls = {}

\* Exactly one of {name, (ra, dec)} and exactly one of {freq, vel} supplied.
ExactlyOneOfEachPair(a) ==
    /\ (a.name # None) # (a.ra # None /\ a.dec # None)
    /\ (a.freq # None) # (a.vel # None)

\* Target validation has run to its end: it raised, or resolved the band.
Validated == InvalidTargetRaised \/ band # None

\* C7: the target validation of download fails with the invalid-target error
\* exactly when both or neither member of one of the two pairs is supplied.
C7_ExactlyOneOfEachPair ==
    (entry \in DownloadEntries /\ Validated)
    => (InvalidTargetRaised <=> ~ExactlyOneOfEachPair(args))

\* C8: with a frequency range and no velocity range supplied, and the centre
\* resolved, download resolves the band to the supplied pair in ascending
\* order.
C8_SuppliedFrequencyUsed ==
    (entry \in DownloadEntries /\ args.freq # None /\ args.vel = None
        /\ centre # None /\ (band # None \/ exc = FREQ_ERROR))
    => band = Some(SortAsc(FreqToBand(args.freq[1])))

\* The selection is k observations with one image row and one weight row
\* each, all filenames distinct.
PairSelection ==
    /\ subset # <<>>
    /\ \A o \in Processed :
          Len(Group(subset, o, IMAGE_SUBTYPE)) = 1 /\ Len(Group(subset, o, WEIGHT_SUBTYPE)) = 1
    /\ \A i, j \in DOMAIN subset :
          (subset[i].obs_id \in Processed /\ subset[j].obs_id \in Processed /\ i # j)
          => subset[i].filename # subset[j].filename

\* C9: on a selection of k observations with one image and one weight row
\* each and distinct filenames, download fails only if a job raised, returns
\* once every job has completed, and then image_map and weight_map have k
\* entries each and file_map.json has 2k, whatever the order in which the
\* tasks were created and the jobs completed.
C9_PairSelectionSizes ==
    (entry = CASDA_MAIN /\ PairSelection) =>
        LET k == Cardinality(Processed)
        IN /\ pc = "raised" => \E x \in OpKeys : op[x].state = "raised"
           /\ (Quiescent /\ \A x \in OpKeys : op[x].state # "raised") => pc = "returned"
           /\ pc = "returned" =>
                 /\ ret = Some(<<image_dict, weights_dict>>)
                 /\ Len(image_dict) = k
                 /\ Len(weights_dict) = k
                 /\ file_map # None
                 /\ Len(file_map[1]) = 2 * k

\* C9 witness: two observations, the second created first, both returned.
C9_Witness ==
    /\ entry = CASDA_MAIN
    /\ PairSelection
    /\ task_list = <<SB12, SB1>>
    /\ pc = "returned"
    /\ Len(file_map[1]) = 4

\* C10: the config generate_config writes is the same for every insertion
\* order of the same two file maps.
C10_ConfigIndependentOfOrder ==
    config # None =>
        \A i2 \in Orders(Range(image_dict)), w2 \in Orders(Range(weights_dict)) :
            GenerateConfigText(i2, w2, OutputImage, OutputWeights) = config[1]

\* C11: the config that either generator (linmos.generate_config,
\* linmos_config.generate) writes lists, in order, the local path of every
\* entry of the image map and of the weight map without its file extension,
\* and its history holds one entry per key of the two maps, every catalog
\* filename among them.
C11_ConfigListsStrippedPathsAndHistory ==
    (entry \in GeneratorEntries /\ config # None) =>
        LET Stripped(path) == [dir |-> path.dir, stem |-> path.stem, suffixes |-> <<>>]
            images == ValueList(image_dict)
            weights == ValueList(weights_dict)
            c == config[1]
        IN /\ c.names = [i \in DOMAIN images |-> Stripped(images[i])]
           /\ c.weights = [i \in DOMAIN weights |-> Stripped(weights[i])]
           /\ Len(c.history) = Len(image_dict) + Len(weights_dict)
           /\ Range(c.history) = Keys(image_dict) \cup Keys(weights_dict)

PreconditionErrors == {CONTAINER_ERROR, CONFIG_ERROR}

\* C12: a runner (run_linmos, run_linmos_docker) called when the config file
\* does not exist or the container image cannot be resolved spawns no
\* subprocess and writes no job script, and ends by raising a precondition
\* error.
C12_PreconditionsBeforeSpawn ==
    (entry \in RunnerEntries /\ (config = None \/ ~container_exists)) =>
        /\ procs = <<>>
        /\ sbatch_file = None
        /\ rpc # "returned"
        /\ rpc = "raised" => exc \in PreconditionErrors

\* The calls of the scheduler CLI made so far.
Submissions == SelectSeq(procs, LAMBDA p : p.cmd = "sbatch")

\* C13: whenever run_linmos spawns the scheduler CLI, linmos.sh is written to
\* its last line, holds the supplied account, time and mem values verbatim
\* and is executable; a non-zero exit of the scheduler CLI makes run_linmos
\* raise the submission error; and no step of the runner changes the config
\* file, which is there in full when the submission fails.
C13_ScriptReadyBeforeSubmission ==
    /\ [](\A i \in DOMAIN Submissions :
            LET p == Submissions[i]
            IN /\ p.script # None
               /\ LET lines == p.script[1]
                  IN /\ <<"#SBATCH", "--account", sbatch_kwargs.account>> \in Range(lines)
                     /\ <<"#SBATCH", "--time", sbatch_kwargs.time>> \in Range(lines)
                     /\ <<"#SBATCH", "--mem", sbatch_kwargs.mem>> \in Range(lines)
                     /\ lines[Len(lines)][1] = "singularity"
                     /\ lines[Len(lines)][Len(lines[Len(lines)])] = LinmosConfigPath
               /\ p.executable
               /\ p.returncode # 0 => (rpc = "raised" /\ exc = SUBMIT_ERROR)
               /\ config # None
               /\ entry = MOSAIC_STAGE =>
                     config[1] = GenerateConfigText(image_dict, weights_dict,
                                                    OutputImage, OutputWeights))
    /\ [][rpc # "idle" => config' = config]_vars

\* C13 witness: a submission with other than the default account and mem
\* was refused by the scheduler, and run_linmos has raised.
C13_Witness ==
    /\ sbatch_kwargs.account = "pawsey0411"
    /\ sbatch_kwargs.mem = "64G"
    /\ Len(Submissions) = 1
    /\ Submissions[1].returncode # 0
    /\ rpc = "raised"
    /\ config # None

\* The scheduler has accepted a job script.
Accepted == \E i \in DOMAIN Submissions : Submissions[i].returncode = 0

\* C14: once the scheduler has accepted the job script, cutout_mosaic does
\* not fail, and when nothing is left to run it has completed, whether or
\* not the batch job has written the mosaic image and weights.
C14_AcceptedSubmissionCompletes ==
    (entry \in WorkflowEntries /\ Accepted) =>
        /\ flow # "failed"
        /\ Quiescent => flow = "done"

\* C15: a workflow run that reaches its mosaic step spawns the subprocesses
\* of one strategy only, and the strategy depends on the runtime options:
\* some run of the workflow selects the local runner (run_linmos_docker) and
\* some run selects the batch runner (run_linmos).
C15_StrategySelectedByFlag ==
    (entry \in WorkflowEntries /\ rpc # "idle") =>
        /\ \A i, j \in DOMAIN procs : procs[i].cmd = procs[j].cmd
        /\ \E a \in CliArgsOf(PIPELINE) : MosaicRunner(a) = RUN_LINMOS_DOCKER
        /\ \E a \in CliArgsOf(PIPELINE) : MosaicRunner(a) = RUN_LINMOS

\* The filters of download or of casda.cutout.main have run.
Filtered ==
    \/ pc \in {"mkdir", "main_cutout"}
    \/ pc = "returned" /\ subset = <<>> /\ centre # None /\ band # None

\* C16: whatever archive the filtered table comes from, a record that passes
\* the MilkyWay filter is in the table if and only if its RA offset and its
\* Dec offset from the centre are both below SEPARATION; a record with an
\* offset of exactly SEPARATION is not in it.
C16_RegionFilterStrict ==
    Filtered =>
        /\ \E observations \in ArchivesFor(args) :
              subset = FilterSubset(observations, centre[1], args.milkyway)
        /\ \A observations \in ArchivesFor(args) :
              subset = FilterSubset(observations, centre[1], args.milkyway) =>
                 \A i \in DOMAIN observations :
                    LET r == observations[i]
                        dra == Abs(r.s_ra - centre[1].ra)
                        ddec == Abs(r.s_dec - centre[1].dec)
                    IN r.filename.milkyway = args.milkyway =>
                          /\ r \in Range(subset) <=> (dra < SEPARATION /\ ddec < SEPARATION)
                          /\ (dra = SEPARATION \/ ddec = SEPARATION) => r \notin Range(subset)

\* C16 witness: the filtered table keeps a record one micro-degree inside the
\* threshold in RA, and comes from an archive with a record at exactly the
\* threshold in Dec that is not kept.
C16_Witness ==
    /\ pc = "mkdir"
    /\ \E i \in DOMAIN subset : Abs(subset[i].s_ra - centre[1].ra) = SEPARATION - 1
    /\ \E observations \in ArchivesFor(args) :
          /\ subset = FilterSubset(observations, centre[1], args.milkyway)
          /\ \E i \in DOMAIN observations :
                /\ Abs(observations[i].s_dec - centre[1].dec) = SEPARATION
                /\ Abs(observations[i].s_ra - centre[1].ra) < SEPARATION
                /\ observations[i].filename.milkyway = args.milkyway
                /\ observations[i] \notin Range(subset)

\* The observations that survive the filters, and the allow-list test of
\* the claim.
Survivors == {subset[i].obs_id : i \in DOMAIN subset}
Allowed(o) ==
    args.sbids = None \/ \E j \in DOMAIN args.sbids[1] : IsSubstring(args.sbids[1][j], o)
JobsOf(o) == {<<o, IMAGE_SUBTYPE>>, <<o, WEIGHT_SUBTYPE>>}

\* C17: in download, a task has the results of its observation only when
\* both jobs of the observation have completed; the file maps are merged and
\* file_map.json is written only in a step before which the jobs of every
\* observation have completed and no job is running.
C17_JoinBeforeMergeAndPersist ==
    /\ [](entry \in DownloadEntries =>
            /\ \A o \in ObsIds :
                  task[o] = "done" => \A x \in JobsOf(o) : op[x].state = "done"
            /\ (file_map # None \/ image_dict # <<>> \/ weights_dict # <<>>) =>
                  /\ \A x \in OpKeys : op[x].state # "running"
                  /\ \A o \in Range(task_list) : \A x \in JobsOf(o) : op[x].state = "done")
    /\ [][(entry \in DownloadEntries
            /\ (file_map' # file_map \/ image_dict' # image_dict
                   \/ weights_dict' # weights_dict)) =>
              /\ \A x \in OpKeys : op[x].state # "running"
              /\ \A o \in Range(task_list) : \A x \in JobsOf(o) : op[x].state = "done"]_vars

\* C17 witness: file_map.json is written after the four jobs of two
\* observations have completed.
C17_Witness ==
    /\ entry = CASDA_MAIN
    /\ file_map # None
    /\ task_list = <<SB1, SB12>>
    /\ \A x \in OpKeys : op[x].state = "done"

\* C18: image_dict and weights_dict of download change only in the step of
\* the coordinator that follows the gather of all tasks, when every task is
\* done and no job is running; a step in which a job runs changes neither.
C18_SingleWriterAfterJoin ==
    /\ [][(entry \in DownloadEntries
            /\ (image_dict' # image_dict \/ weights_dict' # weights_dict)) =>
              /\ pc = "gather" /\ pc' = "returned"
              /\ \A o \in Range(task_list) : task[o] = "done"
              /\ \A x \in OpKeys : op[x].state # "running" /\ op'[x] = op[x]]_vars
    /\ [][(\E x \in OpKeys : op[x].state = "running" /\ op'[x].state # "running") =>
              (image_dict' = image_dict /\ weights_dict' = weights_dict)]_vars

\* C18 witness: the coordinator has written both maps from the results of
\* two observations.
C18_Witness ==
    /\ entry \in DownloadEntries
    /\ Cardinality(Range(task_list)) = 2
    /\ image_dict # <<>>
    /\ weights_dict # <<>>
    /\ \A o \in Range(task_list) : task[o] = "done"

\* C19: download hands no job to the executor more than once; once its
\* tasks have run it has handed over exactly the image job and the weight
\* job of every surviving observation that passes the allow-list, it has
\* created one task for each of them, and it never hands over a job of any
\* other observation.
C19_TwoJobsPerProcessedObservation ==
    entry \in DownloadEntries =>
        /\ \A x \in OpKeys : submitted[x] <= 1
        /\ \A o \in ObsIds :
              (o \notin Survivors \/ ~Allowed(o)) =>
                  \A x \in JobsOf(o) : submitted[x] = 0 /\ op[x].state = "none"
        /\ \A i, j \in DOMAIN task_list : task_list[i] = task_list[j] => i = j
        /\ (task_list # <<>> /\ pc \in {"raised", "returned"}) =>
              \A o \in Survivors :
                  Allowed(o) => /\ o \in Range(task_list)
                                /\ \A x \in JobsOf(o) : submitted[x] = 1

\* C19 witness: with an allow-list that names one of two surviving
\* observations, download has returned after the two jobs of that
\* observation and no job of the other.
C19_Witness ==
    /\ entry = CASDA_MAIN
    /\ args.sbids # None
    /\ Cardinality(Survivors) = 2
    /\ pc = "returned"
    /\ \E o \in Survivors : Allowed(o) /\ \A x \in JobsOf(o) : submitted[x] = 1
    /\ \E o \in Survivors : ~Allowed(o) /\ \A x \in JobsOf(o) : submitted[x] = 0

\* A runner has been called, or has left a trace.
RunnerInvoked == rpc # "idle" \/ procs # <<>> \/ sbatch_file # None

\* C20: in a run of cutout_mosaic a runner is called, and a subprocess is
\* spawned, only when download has returned its file maps, no job is running,
\* every task is done, file_map.json is written and the config is written;
\* when the download step has failed no runner is called.
C20_RunnerAfterDownload ==
    entry \in WorkflowEntries =>
        /\ RunnerInvoked =>
              /\ pc = "returned" /\ ret # None
              /\ \A x \in OpKeys : op[x].state # "running"
              /\ \A o \in Range(task_list) : task[o] = "done"
              /\ file_map # None
              /\ config # None
        /\ (flow \notin {"start", "download_cutouts", "await"}
              /\ (pc # "returned" \/ ret = None)) =>
              (flow = "failed" /\ ~RunnerInvoked)

\* C20 witness: cutout_mosaic has ended with the failure of its download
\* step, and no runner was called.
C20_Witness ==
    /\ entry = PIPELINE
    /\ flow = "failed"
    /\ exc = BINDING_ERROR
    /\ output_exists
    /\ ~RunnerInvoked
    /\ config = None
    /\ Quiescent

\* A job has been handed to the executor.
Dispatched == \E x \in OpKeys : submitted[x] > 0

\* C21: in a run of download the output directory exists whenever a job has
\* been handed to the executor; os.makedirs is called at most once, only
\* when the directory does not exist and before any job is handed over; the
\* create-if-absent step raises nothing whether or not the directory exists;
\* and os.makedirs is not called at all when download returns on an empty
\* selection.
C21_OutputDirectoryCreatedOnce ==
    /\ [](entry \in DownloadEntries =>
            /\ makedirs <= 1
            /\ Dispatched => output_exists
            /\ (pc = "returned" /\ subset = <<>>) => makedirs = 0)
    /\ [][(entry \in DownloadEntries /\ makedirs' # makedirs) =>
              (~output_exists /\ output_exists' /\ ~Dispatched)]_vars
    /\ [][(entry \in DownloadEntries /\ output_exists) => output_exists']_vars
    /\ [][(entry \in DownloadEntries /\ pc = "mkdir" /\ pc' # pc) =>
              (pc' = "spawn" /\ exc' = exc)]_vars

\* C21 witness: download has created the directory that was absent, once,
\* and has then handed over the jobs of two observations.
C21_Witness ==
    /\ entry = CASDA_MAIN
    /\ makedirs = 1
    /\ output_exists
    /\ \A x \in OpKeys : submitted[x] = 1

\* No external collaborator has failed: no job has raised.
CollaboratorsSucceed == \A x \in OpKeys : op[x].state # "raised"

\* C22: a run of cutout_mosaic on a valid target whose collaborators all
\* succeed calls download with every parameter download requires, does not
\* fail, and when nothing is left to run it has submitted the mosaic job.
C22_PipelineReachesSubmission ==
    (entry = PIPELINE /\ ExactlyOneOfEachPair(args) /\ CollaboratorsSucceed) =>
        /\ flow \notin {"start", "download_cutouts"} =>
              DownloadParams \subseteq ParseArgsDests(entry)
        /\ flow # "failed"
        /\ Quiescent => Submissions # <<>>

\* C23: a job that returns, returns one entry, whatever the size of its
\* group: the first record's filename mapped to the local path of a cutout
\* (no checksum file) of that record; when download has returned its maps,
\* each has at most as many entries as observations were processed; and a
\* job on an empty group raises, after which download never returns and,
\* when nothing is left to run, has raised and its caller has failed.
C23_OneEntryPerJob ==
    entry \in DownloadEntries =>
        /\ \A x \in OpKeys :
              LET file_list == Group(subset, x[1], x[2])
              IN /\ op[x].state = "done" =>
                       /\ Len(op[x].result) = 1
                       /\ file_list # <<>>
                       /\ op[x].result[1].k = file_list[1].filename
                       /\ op[x].result[1].v.stem.of = file_list[1].filename
                       /\ "checksum" \notin Range(op[x].result[1].v.suffixes)
                 /\ (file_list = <<>> /\ op[x].state \notin {"none", "running"}) =>
                       /\ op[x].state = "raised"
                       /\ pc # "returned"
                       /\ ret = None
                       /\ Quiescent => (pc = "raised" /\ flow = "failed")
        /\ (pc = "returned" /\ ret # None) =>
              /\ Len(image_dict) <= Cardinality(Range(task_list))
              /\ Len(weights_dict) <= Cardinality(Range(task_list))
              /\ Range(task_list) = Processed

\* C23 witness: download has returned after a job on a group of two records
\* returned one entry.
C23_Witness ==
    /\ entry = CASDA_MAIN
    /\ pc = "returned"
    /\ ret # None
    /\ \E x \in OpKeys :
          /\ Len(Group(subset, x[1], x[2])) = 2
          /\ op[x].state = "done"
          /\ Len(op[x].result) = 1

====
